---- MODULE Spec2Model ----
(***************************************************************************)
(* A model of goissues (src/main.go): the Change-Link Index built by the   *)
(* ForeachOpenCL callback, and the ForeachIssue callback that filters,     *)
(* classifies (state, when), joins the assignees and writes one record.    *)
(*                                                                         *)
(* Go strings that are only compared (state, when, status, titles) are     *)
(* TLA+ strings; strings that are built (the assignee list, the number,    *)
(* the date) are sequences of one-character strings.                       *)
(***************************************************************************)
EXTENDS Integers, Sequences, FiniteSets, TLC

VARIABLES
    cls,         \* the change-proposals ForeachOpenCL yields
    visited,     \* indices of cls the callback has already been called on
    issueHasCL,  \* the map issueHasCL, as the set of keys mapped to true
    issues,      \* the issues ForeachIssue yields, in enumeration order
    pos,         \* number of issues ForeachIssue has already passed
    out,         \* the records given to w.Write, in order
    pc,          \* the callback's position
    state,       \* the local variable state
    when,        \* the local variable when
    k,           \* number of elements the running range loop has passed
    whenBy,      \* history: the signal whose assignment gave when its value
    who          \* the strings.Builder who

vars == <<cls, visited, issueHasCL, issues, pos, out, pc, state, when, k,
          whenBy, who>>

-----------------------------------------------------------------------------
(* GitHub label IDs and milestone numbers.                                 *)

go2ID == 150880249
documentationID == 150880209
earlyInCycleID == 626114143
featureRequestID == 373540105
helpWantedID == 150880243
needsDecisionID == 373401956
needsFixID == 373399998
needsInvestigationID == 373402289
performanceID == 150880191
proposalID == 236419512
proposalHoldID == 477156222
releaseBlockerID == 626114820
soonID == 936464699
testingID == 150880205
toolSpeedID == 358732225
waitingForInfoID == 357033853
frozenDueToAgeID == 398069301

unplannedMilestone == 6
unreleasedMilestone == 22
proposalMilestone == 30
go2Milestone == 72
gccgoMilestone == 23
gollvmMilestone == 100

-----------------------------------------------------------------------------
(* Bounds and input universes.                                             *)

MaxLabels == 3
MaxAssignees == 3
MaxIssues == 2
MaxCLs == 2

\* The label IDs an issue of the model may carry: every ID the code reads,
\* and needsFixID for a label no case of the code names.
LabelIDs ==
    {waitingForInfoID, proposalHoldID, needsDecisionID, soonID,
     releaseBlockerID, earlyInCycleID, featureRequestID, performanceID,
     toolSpeedID, testingID, documentationID, helpWantedID, frozenDueToAgeID,
     needsFixID}

\* i.Milestone == nil
NilMilestone == [IsNil |-> TRUE, Number |-> 0, Title |-> ""]

RecognisedMilestones ==
    {[IsNil |-> FALSE, Number |-> unplannedMilestone, Title |-> "Unplanned"],
     [IsNil |-> FALSE, Number |-> unreleasedMilestone, Title |-> "Unreleased"],
     [IsNil |-> FALSE, Number |-> proposalMilestone, Title |-> "Proposal"],
     [IsNil |-> FALSE, Number |-> go2Milestone, Title |-> "Go2"],
     [IsNil |-> FALSE, Number |-> gccgoMilestone, Title |-> "Gccgo"],
     [IsNil |-> FALSE, Number |-> gollvmMilestone, Title |-> "Gollvm"]}

\* Display titles of a milestone whose number is none of the six above: a
\* release title, the empty title, and the titles that spell a value the
\* label pass itself assigns to when.
Titles == {"Go1.14", "", "early", "feature", "performance", "test", "doc"}

ReleaseMilestones ==
    {[IsNil |-> FALSE, Number |-> 95, Title |-> t] : t \in Titles}

Milestones == {NilMilestone} \cup RecognisedMilestones \cup ReleaseMilestones

SeqsUpTo(S, n) == UNION {[1..m -> S] : m \in 0..n}

\* Logins of assignees, the empty login among them.
Logins == {<<>>, <<"a">>, <<"b", "c">>}

\* Issue numbers; the Gerrit references of the model name the same numbers.
IssueNumbers == {7, 12}

\* The issues whose classification is explored in full: every flag and every
\* milestone, for each label sequence up to MaxLabels; no assignee.
ClassifiedIssues(labels) ==
    [Number : {7}, NotExist : {FALSE}, PullRequest : {FALSE},
     Closed : BOOLEAN, Locked : BOOLEAN, Milestone : Milestones,
     Labels : {labels}, Assignees : {<<>>},
     Updated : {[Year |-> 2019, Month |-> 7, Day |-> 4]}, Title : {"t"}]

\* The issues whose assignee list is explored in full.
AssignedIssues ==
    [Number : {7}, NotExist : {FALSE}, PullRequest : {FALSE},
     Closed : {FALSE}, Locked : {FALSE}, Milestone : {NilMilestone},
     Labels : {<<>>}, Assignees : SeqsUpTo(Logins, MaxAssignees),
     Updated : {[Year |-> 2019, Month |-> 7, Day |-> 4]}, Title : {"t"}]

\* Tombstones and pull requests.
AbsentIssues ==
    [Number : {7}, NotExist : BOOLEAN, PullRequest : BOOLEAN,
     Closed : BOOLEAN, Locked : {FALSE}, Milestone : {NilMilestone},
     Labels : {<<>>, <<documentationID>>}, Assignees : {<<>>},
     Updated : {[Year |-> 2019, Month |-> 7, Day |-> 4]}, Title : {"t"}]

\* The issues of an enumeration of several issues.
EnumeratedIssues ==
    [Number : IssueNumbers, NotExist : BOOLEAN, PullRequest : BOOLEAN,
     Closed : {FALSE}, Locked : BOOLEAN, Milestone : {NilMilestone},
     Labels : {<<>>, <<frozenDueToAgeID>>}, Assignees : {<< <<"a">> >>},
     Updated : {[Year |-> 2019, Month |-> 12, Day |-> 31]}, Title : {"t"}]

\* The repository corpus.GitHub().Repo("golang", "go"), and another one.
GoRepo == "golang/go"
OtherRepo == "golang/tools"

\* One review decision, as its LabelVotes(): the votes of each category.
ApprovingMeta == ("Code-Review" :> <<2>>) @@ ("Run-TryBot" :> <<1>>)
RejectingMeta == ("Code-Review" :> <<2, -2>>) @@ ("Run-TryBot" :> <<>>)
FailingMeta == ("Code-Review" :> <<-1>>) @@ ("Run-TryBot" :> <<-2>>)

MetaLists ==
    {<<>>, <<ApprovingMeta>>, <<RejectingMeta>>, <<FailingMeta>>,
     <<ApprovingMeta, RejectingMeta>>, <<RejectingMeta, ApprovingMeta>>}

RefLists ==
    {<<>>,
     <<[Repo |-> GoRepo, Number |-> 7]>>,
     <<[Repo |-> OtherRepo, Number |-> 7]>>,
     <<[Repo |-> OtherRepo, Number |-> 12], [Repo |-> GoRepo, Number |-> 7]>>,
     <<[Repo |-> GoRepo, Number |-> 7], [Repo |-> GoRepo, Number |-> 12]>>}

\* The change-proposals of the model: open ones with every list of references
\* and of decisions above, and merged and abandoned ones that would count.
CLs ==
    [Status : {"new"}, GitHubIssueRefs : RefLists, Metas : MetaLists]
    \cup
    [Status : {"merged", "abandoned"},
     GitHubIssueRefs : {<<[Repo |-> GoRepo, Number |-> 7]>>,
                        <<[Repo |-> GoRepo, Number |-> 7],
                          [Repo |-> GoRepo, Number |-> 12]>>},
     Metas : {<<>>, <<ApprovingMeta>>}]

-----------------------------------------------------------------------------
(* The Change-Link Index.                                                  *)

\* IssuesOfCL with the rejecting vote looked for in every decision, not only
\* in the most recent one.
IssuesOfCLAnyMeta(cl) ==
    LET refs == cl.GitHubIssueRefs
        hasRef == \E n \in DOMAIN refs : refs[n].Repo = GoRepo
        rejected == \E m \in DOMAIN cl.Metas :
                        \E v \in DOMAIN cl.Metas[m]["Code-Review"] :
                            cl.Metas[m]["Code-Review"][v] = -2
    IN  IF cl.Status \in {"merged", "abandoned"} THEN {}
        ELSE IF ~hasRef THEN {}
        ELSE IF rejected THEN {}
        ELSE {refs[n].Number : n \in {m \in DOMAIN refs : refs[m].Repo = GoRepo}}

\* The keys one call of the ForeachOpenCL callback sets in issueHasCL.
IssuesOfCL(cl) ==
    LET refs == cl.GitHubIssueRefs
        hasRef == \E n \in DOMAIN refs : refs[n].Repo = GoRepo
        votes == cl.Metas[Len(cl.Metas)]["Code-Review"]
    IN  IF cl.Status \in {"merged", "abandoned"} THEN {}
        ELSE IF ~hasRef THEN {}
        ELSE IF Len(cl.Metas) >= 1 /\ \E v \in DOMAIN votes : votes[v] = -2 THEN {}
        ELSE {refs[n].Number : n \in {m \in DOMAIN refs : refs[m].Repo = GoRepo}}

\* Lines 75-104: the callback on the n-th change-proposal; ForeachOpenCL
\* yields them in an order the program does not choose.
VisitCL(n) ==
    /\ n \in DOMAIN cls
    /\ n \notin visited
    /\ issueHasCL' = issueHasCL \cup IssuesOfCL(cls[n])
    /\ visited' = visited \cup {n}
    /\ UNCHANGED <<cls, issues, pos, out, pc, state, when, k, whenBy, who>>

NextIndex == \E n \in 1..MaxCLs : VisitCL(n)

InitIndex ==
    /\ cls \in SeqsUpTo(CLs, MaxCLs)
    /\ visited = {}
    /\ issueHasCL = {}
    /\ issues = <<>>
    /\ pos = 0
    /\ out = <<>>
    /\ pc = "index"
    /\ state = ""
    /\ when = ""
    /\ k = 0
    /\ whenBy = ""
    /\ who = <<>>

SpecIndex == InitIndex /\ [][NextIndex]_vars

-----------------------------------------------------------------------------
(* The classification of one issue.                                        *)

\* i.HasLabelID(id)
HasLabelID(issue, id) == \E n \in DOMAIN issue.Labels : issue.Labels[n] = id

\* Excluded with the frozen-due-to-age label excluding an unlocked issue too.
ExcludedFrozen(issue) ==
    \/ issue.NotExist
    \/ issue.PullRequest
    \/ HasLabelID(issue, frozenDueToAgeID)

\* The inclusion filter: TRUE when the callback returns without a record.
Excluded(issue) ==
    \/ issue.NotExist
    \/ issue.PullRequest
    \/ (issue.Locked /\ HasLabelID(issue, frozenDueToAgeID))

\* state after the first switch.
BaseState(issue) ==
    IF issue.Closed THEN "closed"
    ELSE IF issue.Locked THEN "locked"
    ELSE ""

\* when after the milestone switch.
BaseWhen(issue) ==
    IF issue.Milestone.IsNil THEN ""
    ELSE CASE issue.Milestone.Number = unplannedMilestone ->
                  IF HasLabelID(issue, helpWantedID) THEN "help" ELSE "unplanned"
           [] issue.Milestone.Number = unreleasedMilestone -> "unreleased"
           [] issue.Milestone.Number = proposalMilestone -> "proposal"
           [] issue.Milestone.Number = go2Milestone -> "go2"
           [] issue.Milestone.Number = gccgoMilestone -> "gccgo"
           [] issue.Milestone.Number = gollvmMilestone -> "gollvm"
           [] OTHER -> ""

\* LabelState with waiting-for-info and proposal-hold assigning whatever the
\* current state.
LabelStateUnguarded(s, l) ==
    CASE l \in {waitingForInfoID, proposalHoldID} -> "waiting"
      [] l = needsDecisionID ->
             IF s = "" THEN "deciding" ELSE s
      [] OTHER -> s

\* LabelState with needs-decision held back by closed and waiting only.
LabelStateDeciding(s, l) ==
    CASE l \in {waitingForInfoID, proposalHoldID} ->
             IF s \in {"", "deciding"} THEN "waiting" ELSE s
      [] l = needsDecisionID ->
             IF s \notin {"closed", "waiting"} THEN "deciding" ELSE s
      [] OTHER -> s

\* state after the label pass has handled label l.
LabelState(s, l) ==
    CASE l \in {waitingForInfoID, proposalHoldID} ->
             IF s \in {"", "deciding"} THEN "waiting" ELSE s
      [] l = needsDecisionID ->
             IF s = "" THEN "deciding" ELSE s
      [] OTHER -> s

\* LabelWhenGuard with documentation assigning whatever the current value.
LabelWhenGuardDoc(w, l) ==
    CASE l = soonID -> TRUE
      [] l = releaseBlockerID ->
             w \in {"", "early", "feature", "performance", "test", "doc"}
      [] l = earlyInCycleID -> w \in {"", "feature", "performance", "test", "doc"}
      [] l = featureRequestID -> w \in {"", "performance", "test", "doc"}
      [] l \in {performanceID, toolSpeedID} -> w \in {"", "test", "doc"}
      [] l = testingID -> w \in {"", "doc"}
      [] l = documentationID -> TRUE
      [] OTHER -> FALSE

\* LabelWhenGuard with release-blocker assigning whatever the current value.
LabelWhenGuardBlocker(w, l) ==
    CASE l = soonID -> TRUE
      [] l = releaseBlockerID -> TRUE
      [] l = earlyInCycleID -> w \in {"", "feature", "performance", "test", "doc"}
      [] l = featureRequestID -> w \in {"", "performance", "test", "doc"}
      [] l \in {performanceID, toolSpeedID} -> w \in {"", "test", "doc"}
      [] l = testingID -> w \in {"", "doc"}
      [] l = documentationID -> w = ""
      [] OTHER -> FALSE

\* LabelWhenGuard with "performance" missing from the values early-in-cycle
\* overrides.
LabelWhenGuardEarly(w, l) ==
    CASE l = soonID -> TRUE
      [] l = releaseBlockerID ->
             w \in {"", "early", "feature", "performance", "test", "doc"}
      [] l = earlyInCycleID -> w \in {"", "feature", "test", "doc"}
      [] l = featureRequestID -> w \in {"", "performance", "test", "doc"}
      [] l \in {performanceID, toolSpeedID} -> w \in {"", "test", "doc"}
      [] l = testingID -> w \in {"", "doc"}
      [] l = documentationID -> w = ""
      [] OTHER -> FALSE

\* TRUE when label l's case assigns to when, given its current value w.
LabelWhenGuard(w, l) ==
    CASE l = soonID -> TRUE
      [] l = releaseBlockerID ->
             w \in {"", "early", "feature", "performance", "test", "doc"}
      [] l = earlyInCycleID -> w \in {"", "feature", "performance", "test", "doc"}
      [] l = featureRequestID -> w \in {"", "performance", "test", "doc"}
      [] l \in {performanceID, toolSpeedID} -> w \in {"", "test", "doc"}
      [] l = testingID -> w \in {"", "doc"}
      [] l = documentationID -> w = ""
      [] OTHER -> FALSE

\* The value label l's case assigns to when.
LabelWhenValue(issue, l) ==
    CASE l = soonID -> "soon"
      [] l = releaseBlockerID ->
             IF ~issue.Milestone.IsNil THEN issue.Milestone.Title ELSE "release"
      [] l = earlyInCycleID -> "early"
      [] l = featureRequestID -> "feature"
      [] l \in {performanceID, toolSpeedID} -> "performance"
      [] l = testingID -> "test"
      [] l = documentationID -> "doc"
      [] OTHER -> ""

\* when after the label pass has handled label l.
LabelWhen(issue, w, l) ==
    IF LabelWhenGuard(w, l) THEN LabelWhenValue(issue, l) ELSE w

\* FallbackState without the lookup in issueHasCL.
FallbackStateNoIndex(issue, s, index) ==
    IF s = "" THEN "open" ELSE s

\* state after the final fallback.
FallbackState(issue, s, index) ==
    IF s = "" THEN (IF issue.Number \in index THEN "pending" ELSE "open")
    ELSE s

\* WhoAppend without the skip of an empty login.
WhoAppendNoSkip(w, login) ==
    (IF Len(w) > 0 THEN w \o <<",">> ELSE w) \o login

\* strings.Builder who after the assignee loop has handled one login.
WhoAppend(w, login) ==
    IF login = <<>> THEN w
    ELSE (IF Len(w) > 0 THEN w \o <<",">> ELSE w) \o login

Digit(d) == <<"0", "1", "2", "3", "4", "5", "6", "7", "8", "9">>[d + 1]

RECURSIVE FormatNat(_)
FormatNat(n) ==
    IF n < 10 THEN <<Digit(n)>>
    ELSE FormatNat(n \div 10) \o <<Digit(n % 10)>>

\* strconv.FormatInt(int64(n), 10)
FormatInt(n) == IF n < 0 THEN <<"-">> \o FormatNat(-n) ELSE FormatNat(n)

RECURSIVE ZeroPad(_, _)
ZeroPad(digits, width) ==
    IF Len(digits) >= width THEN digits ELSE ZeroPad(<<"0">> \o digits, width)

\* t.Format("2006-01-02")
FormatDate(t) ==
    ZeroPad(FormatNat(t.Year), 4) \o <<"-">> \o ZeroPad(FormatNat(t.Month), 2)
        \o <<"-">> \o ZeroPad(FormatNat(t.Day), 2)

\* The argument of w.Write.
Record(issue, s, w, assignees) ==
    [number |-> FormatInt(issue.Number), updated |-> FormatDate(issue.Updated),
     state |-> s, when |-> w, who |-> assignees, title |-> issue.Title]

-----------------------------------------------------------------------------
(* The signal that assigns to when, for the history variable whenBy: the   *)
(* label's rung of the ladder, "" for a label with no case that assigns.   *)

Signal(l) ==
    CASE l = soonID -> "soon"
      [] l = releaseBlockerID -> "release-blocker"
      [] l = earlyInCycleID -> "early-in-cycle"
      [] l = featureRequestID -> "feature-request"
      [] l \in {performanceID, toolSpeedID} -> "performance"
      [] l = testingID -> "testing"
      [] l = documentationID -> "documentation"
      [] OTHER -> ""

-----------------------------------------------------------------------------
(* The ForeachIssue callback, one action per step.                         *)

\* The issue the callback is working on.
Cur == issues[pos + 1]

Locals == <<state, when, k, whenBy, who>>
IndexVars == <<cls, visited, issueHasCL>>

\* Line 112: the inclusion filter; an excluded issue returns nil at once.
Filter ==
    /\ pc = "start"
    /\ pos < Len(issues)
    /\ IF Excluded(Cur)
         THEN /\ pos' = pos + 1
              /\ pc' = "start"
         ELSE /\ pos' = pos
              /\ pc' = "state"
    /\ UNCHANGED <<IndexVars, issues, out, Locals>>

\* Lines 119-125.
BaseStateStep ==
    /\ pc = "state"
    /\ state' = BaseState(Cur)
    /\ pc' = "when"
    /\ UNCHANGED <<IndexVars, issues, pos, out, when, k, whenBy, who>>

\* Lines 127-147.
BaseWhenStep ==
    /\ pc = "when"
    /\ when' = BaseWhen(Cur)
    /\ whenBy' = IF BaseWhen(Cur) # "" THEN "milestone" ELSE ""
    /\ k' = 0
    /\ pc' = "labels"
    /\ UNCHANGED <<IndexVars, issues, pos, out, state, who>>

\* Lines 149-199: one iteration of the label pass.
LabelStep ==
    /\ pc = "labels"
    /\ k < Len(Cur.Labels)
    /\ LET l == Cur.Labels[k + 1] IN
         /\ state' = LabelState(state, l)
         /\ when' = LabelWhen(Cur, when, l)
         /\ whenBy' = IF LabelWhenGuard(when, l) THEN Signal(l) ELSE whenBy
    /\ k' = k + 1
    /\ UNCHANGED <<IndexVars, issues, pos, out, pc, who>>

\* Lines 201-207, reached when the label pass is over.
Fallback ==
    /\ pc = "labels"
    /\ k = Len(Cur.Labels)
    /\ state' = FallbackState(Cur, state, issueHasCL)
    /\ k' = 0
    /\ pc' = "assignees"
    /\ UNCHANGED <<IndexVars, issues, pos, out, when, whenBy, who>>

\* Lines 209-218: one iteration of the assignee loop.
AssigneeStep ==
    /\ pc = "assignees"
    /\ k < Len(Cur.Assignees)
    /\ who' = WhoAppend(who, Cur.Assignees[k + 1])
    /\ k' = k + 1
    /\ UNCHANGED <<IndexVars, issues, pos, out, pc, state, when, whenBy>>

\* Line 220: the record is written and the callback returns; its locals end.
Write ==
    /\ pc = "assignees"
    /\ k = Len(Cur.Assignees)
    /\ out' = Append(out, Record(Cur, state, when, who))
    /\ pos' = pos + 1
    /\ pc' = "start"
    /\ state' = ""
    /\ when' = ""
    /\ whenBy' = ""
    /\ who' = <<>>
    /\ k' = 0
    /\ UNCHANGED <<IndexVars, issues>>

Next ==
    \/ Filter
    \/ BaseStateStep
    \/ BaseWhenStep
    \/ LabelStep
    \/ Fallback
    \/ AssigneeStep
    \/ Write

\* The callback on one issue, the index being any result of the first pass.
Init ==
    /\ cls = <<>>
    /\ visited = {}
    /\ issueHasCL \in {{}, {7}}
    /\ \/ \E labels \in SeqsUpTo(LabelIDs, MaxLabels) :
              \E x \in ClassifiedIssues(labels) : issues = <<x>>
       \/ \E x \in AssignedIssues \cup AbsentIssues : issues = <<x>>
    /\ pos = 0
    /\ out = <<>>
    /\ pc = "start"
    /\ state = ""
    /\ when = ""
    /\ k = 0
    /\ whenBy = ""
    /\ who = <<>>

Spec == Init /\ [][Next]_vars

\* ForeachIssue over an enumeration of up to MaxIssues issues.
InitEmit ==
    /\ cls = <<>>
    /\ visited = {}
    /\ issueHasCL = {7}
    /\ issues \in SeqsUpTo(EnumeratedIssues, MaxIssues)
    /\ pos = 0
    /\ out = <<>>
    /\ pc = "start"
    /\ state = ""
    /\ when = ""
    /\ k = 0
    /\ whenBy = ""
    /\ who = <<>>

SpecEmit == InitEmit /\ [][Next]_vars

-----------------------------------------------------------------------------
(* The classification as functions of the issue, for the statements that   *)
(* compare two issues or speak of a whole enumeration.                     *)

\* state after the label pass has handled the first n labels.
RECURSIVE PassState(_, _, _)
PassState(issue, s, n) ==
    IF n = 0 THEN s
    ELSE LabelState(PassState(issue, s, n - 1), issue.Labels[n])

\* when after the label pass has handled the first n labels.
RECURSIVE PassWhen(_, _, _)
PassWhen(issue, w, n) ==
    IF n = 0 THEN w
    ELSE LabelWhen(issue, PassWhen(issue, w, n - 1), issue.Labels[n])

\* who after the assignee loop has handled the first n assignees.
RECURSIVE PassWho(_, _)
PassWho(issue, n) ==
    IF n = 0 THEN <<>>
    ELSE WhoAppend(PassWho(issue, n - 1), issue.Assignees[n])

ClassifyState(issue, index) ==
    FallbackState(issue, PassState(issue, BaseState(issue), Len(issue.Labels)),
                  index)

ClassifyWhen(issue) == PassWhen(issue, BaseWhen(issue), Len(issue.Labels))

\* The record the callback writes for a retained issue.
RecordOf(issue, index) ==
    Record(issue, ClassifyState(issue, index), ClassifyWhen(issue),
           PassWho(issue, Len(issue.Assignees)))

-----------------------------------------------------------------------------
(* Vocabulary of the properties.                                           *)

StateValues == {"closed", "locked", "waiting", "deciding", "pending", "open"}

\* The label pass and the fallback are over: state and when are final.
Classified == pc = "assignees"

\* The callback has just returned from writing the record of issues[pos].
Emitted == pc = "start" /\ pos >= 1 /\ ~Excluded(issues[pos])

\* The ladder as the specification orders it.
SpecRung(sig) ==
    CASE sig = "soon" -> 8
      [] sig = "release-blocker" -> 7
      [] sig = "early-in-cycle" -> 6
      [] sig = "feature-request" -> 5
      [] sig = "performance" -> 4
      [] sig = "testing" -> 3
      [] sig = "documentation" -> 2
      [] sig = "milestone" -> 1
      [] OTHER -> 0

\* The ladder with the milestone-derived default just below soon.
CodeRung(sig) ==
    CASE sig = "soon" -> 9
      [] sig = "milestone" -> 8
      [] OTHER -> SpecRung(sig)

\* The value a signal gives to when.
ProducedBy(issue, sig) ==
    CASE sig = "soon" -> "soon"
      [] sig = "release-blocker" ->
             IF issue.Milestone.IsNil THEN "release" ELSE issue.Milestone.Title
      [] sig = "early-in-cycle" -> "early"
      [] sig = "feature-request" -> "feature"
      [] sig = "performance" -> "performance"
      [] sig = "testing" -> "test"
      [] sig = "documentation" -> "doc"
      [] sig = "milestone" -> BaseWhen(issue)
      [] OTHER -> ""

\* A milestone, when present, has a non-empty title that spells none of the
\* values the lower label rungs assign.
GoodTitle(issue) ==
    \/ issue.Milestone.IsNil
    \/ issue.Milestone.Title \notin
           {"", "early", "feature", "performance", "test", "doc"}

WaitingLabels == {waitingForInfoID, proposalHoldID, needsDecisionID}

-----------------------------------------------------------------------------
(* C1 *)

\* C1 as stated: when the classification is over, for every label of the
\* issue that belongs to a rung, the signal that gave when its final value is
\* of no lower rung, the milestone-derived default ranking just above empty.
C1_SpecLadder ==
    Classified =>
        \A n \in DOMAIN Cur.Labels :
            SpecRung(whenBy) >= SpecRung(Signal(Cur.Labels[n]))

\* C1 amended: the milestone-derived default ranks just below soon and above
\* release-blocker. For every issue that does not carry release-blocker under
\* a milestone whose title is empty or spells a lower rung's value, the final
\* when is the value of a signal of no lower rung than any label the issue
\* carries, and than the milestone default when the milestone has one.
C1_CodeLadder ==
    (Classified /\ (GoodTitle(Cur) \/ ~HasLabelID(Cur, releaseBlockerID))) =>
        /\ when = ProducedBy(Cur, whenBy)
        /\ \A n \in DOMAIN Cur.Labels :
               CodeRung(whenBy) >= CodeRung(Signal(Cur.Labels[n]))
        /\ BaseWhen(Cur) # "" => CodeRung(whenBy) >= CodeRung("milestone")

\* An unplanned issue carrying release-blocker and documentation keeps the
\* milestone default.
C1_Witness ==
    /\ Classified
    /\ Cur.Milestone.Number = unplannedMilestone
    /\ Cur.Labels = <<releaseBlockerID, documentationID>>
    /\ when = "unplanned"

-----------------------------------------------------------------------------
(* C2 *)

\* C2: one step of the label pass never gives when the value of a signal of
\* a lower rung than the signal that gave it the value it holds, a value set
\* by release-blocker ranking at the release-blocker rung; for every label
\* sequence, milestone and display title.
C2_NoDowngrade ==
    [][(pc = "labels" /\ k' = k + 1) => SpecRung(whenBy') >= SpecRung(whenBy)]_vars

-----------------------------------------------------------------------------
(* C3 *)

\* C3: an issue carrying both soon and release-blocker ends with when "soon".
C3_SoonWins ==
    (Classified /\ HasLabelID(Cur, soonID) /\ HasLabelID(Cur, releaseBlockerID))
        => when = "soon"

\* soon first, release-blocker later, under a release milestone.
C3_Witness ==
    /\ Classified
    /\ Len(Cur.Labels) = 3
    /\ Cur.Labels[1] = soonID
    /\ Cur.Labels[3] = releaseBlockerID
    /\ Cur.Milestone.Title = "Go1.14"
    /\ when = "soon"

-----------------------------------------------------------------------------
(* C4 *)

\* C4: the record written for a closed issue has state "closed", and state
\* is "closed" from the base state on.
C4_ClosedStays ==
    /\ (Emitted /\ issues[pos].Closed) => out[Len(out)].state = "closed"
    /\ (pc \in {"when", "labels", "assignees"} /\ Cur.Closed) => state = "closed"

\* A closed, locked, indexed issue with waiting and deciding labels.
C4_Witness ==
    /\ Emitted
    /\ issues[pos].Closed
    /\ issues[pos].Locked
    /\ issues[pos].Number \in issueHasCL
    /\ HasLabelID(issues[pos], waitingForInfoID)
    /\ HasLabelID(issues[pos], needsDecisionID)
    /\ HasLabelID(issues[pos], proposalHoldID)
    /\ out[Len(out)].state = "closed"

-----------------------------------------------------------------------------
(* C5 *)

\* C5: the record's state is "pending" exactly for an issue that is not
\* closed, not locked, carries no waiting-for-info, proposal-hold or
\* needs-decision label and is in the index; "open" exactly for such an issue
\* not in the index; with no milestone and no label its when is "".
C5_Fallback ==
    Emitted =>
        LET issue == issues[pos]
            rec == out[Len(out)]
            plain == /\ ~issue.Closed
                     /\ ~issue.Locked
                     /\ \A l \in WaitingLabels : ~HasLabelID(issue, l)
        IN  /\ rec.state = "pending" <=> (plain /\ issue.Number \in issueHasCL)
            /\ rec.state = "open" <=> (plain /\ issue.Number \notin issueHasCL)
            /\ (plain /\ issue.Milestone.IsNil /\ issue.Labels = <<>>)
                   => rec.when = ""

\* The indexed issue with no milestone and no label: (pending, "").
C5_Witness ==
    /\ Emitted
    /\ issues[pos].Milestone.IsNil
    /\ issues[pos].Labels = <<>>
    /\ issues[pos].Number \in issueHasCL
    /\ out[Len(out)].state = "pending"
    /\ out[Len(out)].when = ""

-----------------------------------------------------------------------------
(* C6 *)

\* The change-proposal counts for issue n, as the claim words it.
Qualifies(cl, n) ==
    /\ cl.Status # "merged"
    /\ cl.Status # "abandoned"
    /\ \E r \in DOMAIN cl.GitHubIssueRefs :
           cl.GitHubIssueRefs[r] = [Repo |-> GoRepo, Number |-> n]
    /\ \/ cl.Metas = <<>>
       \/ LET votes == cl.Metas[Len(cl.Metas)]["Code-Review"]
          IN  \A v \in DOMAIN votes : votes[v] # -2

\* C6: whatever the order of the visits, the index holds exactly the issues
\* for which a visited change-proposal qualifies; after the pass, exactly
\* those for which some change-proposal does.
C6_IndexMembership ==
    issueHasCL = {n \in IssueNumbers : \E m \in visited : Qualifies(cls[m], n)}

\* Two proposals, both visited: one whose last decision rejects after an
\* approval, one whose last decision approves after a rejection; only the
\* second puts its issue of the target repository in the index.
C6_Witness ==
    /\ Len(cls) = 2
    /\ cls[1].Status = "new"
    /\ cls[2].Status = "new"
    /\ cls[1].Metas = <<ApprovingMeta, RejectingMeta>>
    /\ cls[1].GitHubIssueRefs = <<[Repo |-> GoRepo, Number |-> 7]>>
    /\ cls[2].Metas = <<RejectingMeta, ApprovingMeta>>
    /\ cls[2].GitHubIssueRefs =
           <<[Repo |-> OtherRepo, Number |-> 12], [Repo |-> GoRepo, Number |-> 7]>>
    /\ visited = {1, 2}
    /\ issueHasCL = {7}

-----------------------------------------------------------------------------
(* C7 *)

\* The issue is retained, as the claim words it.
Retained(issue) ==
    /\ ~issue.NotExist
    /\ ~issue.PullRequest
    /\ ~(issue.Locked /\ frozenDueToAgeID \in {issue.Labels[n] : n \in DOMAIN issue.Labels})

\* C7: the records written are those of the retained issues among the ones
\* enumerated so far, in enumeration order, one per occurrence.
C7_EmitOrder ==
    LET kept == SelectSeq(SubSeq(issues, 1, pos), Retained)
    IN  out = [n \in 1..Len(kept) |-> RecordOf(kept[n], issueHasCL)]

\* The same retained, locked issue enumerated twice gives two equal records.
C7_Witness ==
    /\ Len(issues) = 2
    /\ pos = 2
    /\ issues[1] = issues[2]
    /\ issues[1].Locked
    /\ issues[1].Number = 12
    /\ Len(out) = 2
    /\ out[1] = out[2]
    /\ out[1].state = "locked"
    /\ out[1].number = <<"1", "2">>
    /\ out[1].updated = <<"2", "0", "1", "9", "-", "1", "2", "-", "3", "1">>

-----------------------------------------------------------------------------
(* C8 *)

RECURSIVE JoinWithCommas(_)
JoinWithCommas(strs) ==
    IF strs = <<>> THEN <<>>
    ELSE IF Len(strs) = 1 THEN strs[1]
    ELSE strs[1] \o <<",">> \o JoinWithCommas(Tail(strs))

NonEmpty(str) == str # <<>>

\* C8: the assignees field is the non-empty logins in order joined by single
\* commas: no comma first or last, no two commas in a row, and empty when
\* no login is non-empty.
C8_AssigneeJoin ==
    Emitted =>
        LET field == out[Len(out)].who
            logins == SelectSeq(issues[pos].Assignees, NonEmpty)
        IN  /\ field = JoinWithCommas(logins)
            /\ field # <<>> => (field[1] # "," /\ field[Len(field)] # ",")
            /\ \A n \in 1..(Len(field) - 1) : ~(field[n] = "," /\ field[n + 1] = ",")
            /\ logins = <<>> => field = <<>>

\* Empty logins first and last around two named ones.
C8_Witness ==
    /\ Emitted
    /\ issues[pos].Assignees = << <<>>, <<"a">>, <<"b", "c">> >>
    /\ out[Len(out)].who = <<"a", ",", "b", "c">>

-----------------------------------------------------------------------------
(* C9 *)

\* C9: while one issue is classified, state only changes from "" to one of
\* the six values or from "deciding" to "waiting"; the state of every record
\* is one of the six values.
C9_StateMachine ==
    /\ [][(pc' # "start" /\ state' # state) =>
              \/ (state = "" /\ state' \in StateValues)
              \/ (state = "deciding" /\ state' = "waiting")]_vars
    /\ [](\A n \in DOMAIN out : out[n].state \in StateValues)

\* needs-decision then waiting-for-info: deciding has become waiting.
C9_Witness ==
    /\ pc = "labels"
    /\ k = 2
    /\ Cur.Labels[1] = needsDecisionID
    /\ Cur.Labels[2] = waitingForInfoID
    /\ ~Cur.Closed
    /\ ~Cur.Locked
    /\ state = "waiting"

-----------------------------------------------------------------------------
(* C10 *)

\* The issue with its labels in the order f gives.
Permuted(issue, f) ==
    [issue EXCEPT !.Labels = [n \in DOMAIN issue.Labels |-> issue.Labels[f[n]]]]

\* C10: for an issue with a good milestone title, the (state, when) computed
\* is the one every permutation of its label sequence gives.
C10_OrderIndependent ==
    (Classified /\ GoodTitle(Cur)) =>
        \A f \in Permutations(DOMAIN Cur.Labels) :
            /\ ClassifyState(Permuted(Cur, f), issueHasCL) = state
            /\ ClassifyWhen(Permuted(Cur, f)) = when

\* feature-request, then early-in-cycle, then needs-decision.
C10_Witness ==
    /\ Classified
    /\ Cur.Labels = <<featureRequestID, earlyInCycleID, needsDecisionID>>
    /\ Cur.Milestone.Title = "Go1.14"
    /\ when = "early"
    /\ state = "deciding"

====
